---- MODULE Spec2Model ----
(***************************************************************************)
(* Model of serverless-cloudfront-plugin.                                  *)
(*                                                                         *)
(*   CloudfrontConnector (src/src/index.js, lines 335-535): the merge of   *)
(*   a route table (behaviorsConfig) into a CloudFront distribution        *)
(*   configuration.                                                        *)
(*   CloudfrontPlugin (src/unnamed/part_001): the resolution of a function *)
(*   to its latest version through listVersionsByFunction pages.           *)
(*                                                                         *)
(* JavaScript objects are records; an absent property is an absent record  *)
(* field (tested with DOMAIN, as the code tests with `in`).  An object     *)
(* whose key order matters (lambdaAssociations of a route entry) is a      *)
(* sequence of [key, fn] pairs with distinct keys.                         *)
(***************************************************************************)
EXTENDS Integers, Sequences, FiniteSets, TLC

VARIABLES
    distributionConfig,  \* the DistributionConfig object the merger mutates
    behaviorsConfig,     \* the route table (custom.cloudfront.behaviors)
    lambdaFunctions,     \* function name -> resolved version object
    fetchedConfig,       \* distributionConfig as it was before the first merge
    previousConfig,      \* distributionConfig as it was before the last merge
    merges,              \* number of addNewConfigToDistribution calls made
    threw,               \* the last merge threw (TypeError at the lookup)
    service,             \* listVersionsByFunction: marker -> response page
    calls,               \* params of the listVersionsByFunction calls issued
    responses,           \* the pages received so far, in order
    pending,             \* a listVersionsByFunction call awaits its callback
    status,              \* state of the promise getLatestVersion returned
    result,              \* the value that promise resolved to
    uncaught,            \* what escaped the callbacks: nothing, or an error
    serverless,          \* the serverless object the plugin was built with
    run,                 \* the deployFunctions runs: run name -> its state
    store,               \* the distribution as CloudFront holds it
    modifications        \* changes made to the distribution by others

vars == << distributionConfig, behaviorsConfig, lambdaFunctions, fetchedConfig,
           previousConfig, merges, threw,
           service, calls, responses, pending, status, result, uncaught,
           serverless, run, store, modifications >>

mergeVars == << distributionConfig, behaviorsConfig, lambdaFunctions,
                fetchedConfig, previousConfig, merges, threw >>

resolveVars == << service, calls, responses, pending, status, result,
                  uncaught >>

deployVars == << serverless, run, store, modifications >>

(***************************************************************************)
(* Bounds of the model.                                                    *)
(***************************************************************************)
MaxAssocKeys == 2     \* keys of one lambdaAssociations object
MaxCookies == 2       \* names of one cookies list
MaxBehaviors == 2     \* ordered cache behaviors of a distribution
MaxMerges == 2        \* addNewConfigToDistribution calls on one config object
MaxVersions == 2      \* versions on one page
MaxCalls == 4         \* listVersionsByFunction calls of one resolution

(***************************************************************************)
(* Constants of the program.                                               *)
(***************************************************************************)
CF_LAMBDA_EVENTS ==
    << [key |-> "viewerRequest",  value |-> "viewer-request"],
       [key |-> "viewerResponse", value |-> "viewer-response"],
       [key |-> "originRequest",  value |-> "origin-request"],
       [key |-> "originResponse", value |-> "origin-response"] >>

CF_COOKIE_FORWARD_VALUES ==
    [none |-> "none", whitelist |-> "whitelist", all |-> "all"]

DefaultKey == "DefaultCacheBehavior"

MaxItems == 50

(***************************************************************************)
(* Helpers on sequences.                                                   *)
(***************************************************************************)
Range(s) == { s[i] : i \in 1..Len(s) }

SeqsUpTo(S, n) == UNION { [1..k -> S] : k \in 0..n }

Injective(s) == \A i, j \in 1..Len(s) : s[i] = s[j] => i = j

(***************************************************************************)
(* CloudfrontConnector: the per-behavior functions.                        *)
(* Each returns [threw, value]: value is the cache behavior the function   *)
(* returns, or the behavior as the throw left it.                          *)
(***************************************************************************)

\* `eventType in eventsToAssociate`
HasKey(eventsToAssociate, eventType) ==
    \E i \in 1..Len(eventsToAssociate) : eventsToAssociate[i].key = eventType

\* `eventsToAssociate[ eventType ]`
ValueOf(eventsToAssociate, eventType) ==
    eventsToAssociate[CHOOSE i \in 1..Len(eventsToAssociate) :
                          eventsToAssociate[i].key = eventType].fn

\* The loop `for ( let eventType in CF_LAMBDA_EVENTS )` from its i-th key on,
\* with the associations pushed so far.  lambdaFunctions[ name ].FunctionArn
\* throws a TypeError when name is not a key of lambdaFunctions.
RECURSIVE EventLoop(_, _, _, _)
EventLoop(i, lambdaAssociations, eventsToAssociate, functions) ==
    IF i > Len(CF_LAMBDA_EVENTS)
    THEN [threw |-> FALSE, items |-> lambdaAssociations]
    ELSE LET eventType == CF_LAMBDA_EVENTS[i].key IN
         IF HasKey(eventsToAssociate, eventType)
         THEN LET name == ValueOf(eventsToAssociate, eventType) IN
              IF name \notin DOMAIN functions
              THEN [threw |-> TRUE, items |-> lambdaAssociations]
              ELSE EventLoop(i + 1,
                       Append(lambdaAssociations,
                           [LambdaFunctionARN |-> functions[name].FunctionArn,
                            EventType |-> CF_LAMBDA_EVENTS[i].value]),
                       eventsToAssociate, functions)
         ELSE EventLoop(i + 1, lambdaAssociations, eventsToAssociate, functions)

\* MUTANT: the loop runs over the keys of the entry, in the entry's order.
RECURSIVE EntryLoop(_, _, _, _)
EntryLoop(i, lambdaAssociations, eventsToAssociate, functions) ==
    IF i > Len(eventsToAssociate)
    THEN [threw |-> FALSE, items |-> lambdaAssociations]
    ELSE LET key == eventsToAssociate[i].key
             name == eventsToAssociate[i].fn
         IN IF \E k \in 1..Len(CF_LAMBDA_EVENTS) : CF_LAMBDA_EVENTS[k].key = key
            THEN IF name \notin DOMAIN functions
                 THEN [threw |-> TRUE, items |-> lambdaAssociations]
                 ELSE EntryLoop(i + 1,
                          Append(lambdaAssociations,
                              [LambdaFunctionARN |-> functions[name].FunctionArn,
                               EventType |->
                                   CF_LAMBDA_EVENTS[CHOOSE k \in 1..Len(CF_LAMBDA_EVENTS) :
                                       CF_LAMBDA_EVENTS[k].key = key].value]),
                          eventsToAssociate, functions)
            ELSE EntryLoop(i + 1, lambdaAssociations, eventsToAssociate, functions)

BuildLambdaAssociations_entryOrder(eventsToAssociate, functions) ==
    EntryLoop(1, << >>, eventsToAssociate, functions)

\* MUTANT: the key of the event is written where its type belongs.
RECURSIVE EventLoop_keyAsType(_, _, _, _)
EventLoop_keyAsType(i, lambdaAssociations, eventsToAssociate, functions) ==
    IF i > Len(CF_LAMBDA_EVENTS)
    THEN [threw |-> FALSE, items |-> lambdaAssociations]
    ELSE LET eventType == CF_LAMBDA_EVENTS[i].key IN
         IF HasKey(eventsToAssociate, eventType)
         THEN LET name == ValueOf(eventsToAssociate, eventType) IN
              IF name \notin DOMAIN functions
              THEN [threw |-> TRUE, items |-> lambdaAssociations]
              ELSE EventLoop_keyAsType(i + 1,
                       Append(lambdaAssociations,
                           [LambdaFunctionARN |-> functions[name].FunctionArn,
                            EventType |-> eventType]),
                       eventsToAssociate, functions)
         ELSE EventLoop_keyAsType(i + 1, lambdaAssociations,
                                  eventsToAssociate, functions)

BuildLambdaAssociations_keyAsType(eventsToAssociate, functions) ==
    EventLoop_keyAsType(1, << >>, eventsToAssociate, functions)

\* The list built by lines 444-457.
BuildLambdaAssociations(eventsToAssociate, functions) ==
    EventLoop(1, << >>, eventsToAssociate, functions)

\* MUTANT: the new associations are pushed onto the existing list.
setCacheBehaviorLambdaAssociations_append(cacheBehavior, eventsToAssociate, functions) ==
    LET built == BuildLambdaAssociations(eventsToAssociate, functions)
        all == cacheBehavior.LambdaFunctionAssociations.Items \o built.items
    IN IF built.threw
       THEN [threw |-> TRUE, value |-> cacheBehavior]
       ELSE IF Len(built.items) # 0
       THEN [threw |-> FALSE,
             value |-> [cacheBehavior EXCEPT
                           !.LambdaFunctionAssociations.Quantity = Len(all),
                           !.LambdaFunctionAssociations.Items = all]]
       ELSE [threw |-> FALSE, value |-> cacheBehavior]

\* MUTANT: the list is written also when nothing was pushed.
setCacheBehaviorLambdaAssociations_unguarded(cacheBehavior, eventsToAssociate, functions) ==
    LET built == BuildLambdaAssociations(eventsToAssociate, functions) IN
    IF built.threw
    THEN [threw |-> TRUE, value |-> cacheBehavior]
    ELSE [threw |-> FALSE,
          value |-> [cacheBehavior EXCEPT
                        !.LambdaFunctionAssociations.Quantity = Len(built.items),
                        !.LambdaFunctionAssociations.Items = built.items]]

setCacheBehaviorLambdaAssociations(cacheBehavior, eventsToAssociate, functions) ==
    LET built == BuildLambdaAssociations(eventsToAssociate, functions) IN
    IF built.threw
    THEN [threw |-> TRUE, value |-> cacheBehavior]
    ELSE IF Len(built.items) # 0
    THEN [threw |-> FALSE,
          value |-> [cacheBehavior EXCEPT
                        !.LambdaFunctionAssociations.Quantity = Len(built.items),
                        !.LambdaFunctionAssociations.Items = built.items]]
    ELSE [threw |-> FALSE, value |-> cacheBehavior]

\* MUTANT: Quantity counts the distinct names.
setCacheBehaviorCookies_distinctQuantity(cacheBehavior, behaviorCookies) ==
    IF Len(behaviorCookies) # 0
    THEN [cacheBehavior EXCEPT !.ForwardedValues.Cookies =
             [Forward |-> CF_COOKIE_FORWARD_VALUES.whitelist,
              WhitelistedNames |-> [Quantity |-> Cardinality(Range(behaviorCookies)),
                                    Items |-> behaviorCookies]]]
    ELSE cacheBehavior

\* MUTANT: the names are added to the names already whitelisted.
setCacheBehaviorCookies_append(cacheBehavior, behaviorCookies) ==
    LET old == IF "WhitelistedNames"
                      \in DOMAIN cacheBehavior.ForwardedValues.Cookies
               THEN cacheBehavior.ForwardedValues.Cookies.WhitelistedNames.Items
               ELSE << >>
        all == old \o behaviorCookies
    IN IF Len(behaviorCookies) # 0
       THEN [cacheBehavior EXCEPT !.ForwardedValues.Cookies =
                [Forward |-> CF_COOKIE_FORWARD_VALUES.whitelist,
                 WhitelistedNames |-> [Quantity |-> Len(all), Items |-> all]]]
       ELSE cacheBehavior

\* MUTANT: the whitelist is written also when the list is empty.
setCacheBehaviorCookies_unguarded(cacheBehavior, behaviorCookies) ==
    [cacheBehavior EXCEPT !.ForwardedValues.Cookies =
        [Forward |-> CF_COOKIE_FORWARD_VALUES.whitelist,
         WhitelistedNames |-> [Quantity |-> Len(behaviorCookies),
                               Items |-> behaviorCookies]]]

setCacheBehaviorCookies(cacheBehavior, behaviorCookies) ==
    IF Len(behaviorCookies) # 0
    THEN [cacheBehavior EXCEPT !.ForwardedValues.Cookies =
             [Forward |-> CF_COOKIE_FORWARD_VALUES.whitelist,
              WhitelistedNames |-> [Quantity |-> Len(behaviorCookies),
                                    Items |-> behaviorCookies]]]
    ELSE cacheBehavior

\* MUTANT: the cookie policy is left as it was.
setDisabledCacheBehavior_keepsCookies(cacheBehavior) ==
    [cacheBehavior EXCEPT
        !.LambdaFunctionAssociations = [Quantity |-> 0, Items |-> << >>]]

\* MUTANT: ForwardedValues is replaced as a whole.
setDisabledCacheBehavior_resetsForwardedValues(cacheBehavior) ==
    [cacheBehavior EXCEPT
        !.ForwardedValues =
            [Cookies |-> [Forward |-> CF_COOKIE_FORWARD_VALUES.none,
                          WhitelistedNames |-> [Quantity |-> 0,
                                                Items |-> << >>]]],
        !.LambdaFunctionAssociations = [Quantity |-> 0, Items |-> << >>]]

\* MUTANT: the items are emptied, the quantities are left as they were.
setDisabledCacheBehavior_staleQuantity(cacheBehavior) ==
    [cacheBehavior EXCEPT
        !.ForwardedValues.Cookies =
            [Forward |-> CF_COOKIE_FORWARD_VALUES.none,
             WhitelistedNames |-> [Quantity |-> 0, Items |-> << >>]],
        !.LambdaFunctionAssociations.Items = << >>]

setDisabledCacheBehavior(cacheBehavior) ==
    [cacheBehavior EXCEPT
        !.ForwardedValues.Cookies =
            [Forward |-> CF_COOKIE_FORWARD_VALUES.none,
             WhitelistedNames |-> [Quantity |-> 0, Items |-> << >>]],
        !.LambdaFunctionAssociations = [Quantity |-> 0, Items |-> << >>]]

\* `'disable' in behaviorConfig`
DisablePassed(behaviorConfig) == "disable" \in DOMAIN behaviorConfig

\* MUTANT: the cookies are looked at only when there are no lambdaAssociations.
extracted_elseIf(behaviorConfig, cacheBehavior, functions) ==
    IF DisablePassed(behaviorConfig)
    THEN [threw |-> FALSE, value |-> setDisabledCacheBehavior(cacheBehavior)]
    ELSE IF "lambdaAssociations" \in DOMAIN behaviorConfig
    THEN setCacheBehaviorLambdaAssociations(cacheBehavior,
             behaviorConfig.lambdaAssociations, functions)
    ELSE [threw |-> FALSE,
          value |-> IF "cookies" \in DOMAIN behaviorConfig
                    THEN setCacheBehaviorCookies(cacheBehavior,
                             behaviorConfig.cookies)
                    ELSE cacheBehavior]

\* The inner function of addNewConfigToDistribution.
extracted(behaviorConfig, cacheBehavior, functions) ==
    IF DisablePassed(behaviorConfig)
    THEN [threw |-> FALSE, value |-> setDisabledCacheBehavior(cacheBehavior)]
    ELSE LET afterLambda ==
                 IF "lambdaAssociations" \in DOMAIN behaviorConfig
                 THEN setCacheBehaviorLambdaAssociations(cacheBehavior,
                          behaviorConfig.lambdaAssociations, functions)
                 ELSE [threw |-> FALSE, value |-> cacheBehavior]
         IN IF afterLambda.threw
            THEN afterLambda
            ELSE [threw |-> FALSE,
                  value |-> IF "cookies" \in DOMAIN behaviorConfig
                            THEN setCacheBehaviorCookies(afterLambda.value,
                                     behaviorConfig.cookies)
                            ELSE afterLambda.value]

(***************************************************************************)
(* CloudfrontConnector.addNewConfigToDistribution.                         *)
(* Route entries are objects, so `if ( table[ key ] )` holds exactly when  *)
(* key is a key of the table.                                              *)
(***************************************************************************)
HasRoute(table, key) == key \in DOMAIN table

\* Lines 416-418: the default behavior, under the reserved key.
MergeDefault(config, functions, table) ==
    IF HasRoute(table, DefaultKey)
    THEN LET r == extracted(table[DefaultKey], config.DefaultCacheBehavior,
                            functions)
         IN [threw |-> r.threw,
             value |-> [config EXCEPT !.DefaultCacheBehavior = r.value]]
    ELSE [threw |-> FALSE, value |-> config]

\* Lines 420-431: the loop over CacheBehaviors.Items from index i on; the
\* items are mutated in place, so a throw leaves the earlier ones merged.
\* MUTANT: every item is looked up under the pattern of the first item.
RECURSIVE BehaviorLoop_firstPattern(_, _, _, _)
BehaviorLoop_firstPattern(i, items, functions, table) ==
    IF i > Len(items)
    THEN [threw |-> FALSE, value |-> items]
    ELSE IF HasRoute(table, items[1].PathPattern)
    THEN LET r == extracted(table[items[1].PathPattern], items[i], functions) IN
         IF r.threw
         THEN [threw |-> TRUE, value |-> items]
         ELSE BehaviorLoop_firstPattern(i + 1, [items EXCEPT ![i] = r.value],
                                        functions, table)
    ELSE BehaviorLoop_firstPattern(i + 1, items, functions, table)

RECURSIVE BehaviorLoop(_, _, _, _)
BehaviorLoop(i, items, functions, table) ==
    IF i > Len(items)
    THEN [threw |-> FALSE, value |-> items]
    ELSE IF HasRoute(table, items[i].PathPattern)
    THEN LET r == extracted(table[items[i].PathPattern], items[i], functions) IN
         IF r.threw
         THEN [threw |-> TRUE, value |-> items]
         ELSE BehaviorLoop(i + 1, [items EXCEPT ![i] = r.value], functions, table)
    ELSE BehaviorLoop(i + 1, items, functions, table)

\* MUTANT: a route whose pattern matches no behavior gets a behavior created.
addNewConfigToDistribution_autoCreate(config, functions, table) ==
    LET d == MergeDefault(config, functions, table)
        patterns == { config.CacheBehaviors.Items[i].PathPattern :
                          i \in 1..Len(config.CacheBehaviors.Items) }
        unmatched == (DOMAIN table \ { DefaultKey }) \ patterns
    IN IF d.threw
       THEN d
       ELSE LET l == BehaviorLoop(1, d.value.CacheBehaviors.Items, functions, table)
                created == IF unmatched = {}
                           THEN << >>
                           ELSE << [config.DefaultCacheBehavior EXCEPT
                                       !.TargetOriginId =
                                           CHOOSE k \in unmatched : TRUE] >>
            IN [threw |-> l.threw,
                value |-> [d.value EXCEPT
                              !.CacheBehaviors.Items = l.value \o created,
                              !.CacheBehaviors.Quantity = Len(l.value \o created)]]

addNewConfigToDistribution(config, functions, table) ==
    LET d == MergeDefault(config, functions, table) IN
    IF d.threw
    THEN d
    ELSE LET l == BehaviorLoop(1, d.value.CacheBehaviors.Items, functions, table)
         IN [threw |-> l.threw,
             value |-> [d.value EXCEPT !.CacheBehaviors.Items = l.value]]

(***************************************************************************)
(* The inputs of the merge, drawn from bounded sets.                       *)
(***************************************************************************)
EventKeys == { CF_LAMBDA_EVENTS[i].key : i \in 1..Len(CF_LAMBDA_EVENTS) }

EventTypes == { CF_LAMBDA_EVENTS[i].value : i \in 1..Len(CF_LAMBDA_EVENTS) }

DeclaredFunctions == { "my-awesome-function", "my-other-awesome-function" }

CookieNames == { "oatmeal_cookie", "chocolate-cookie" }

\* The version object getLatestVersion resolved for a function.
ResolvedVersion(name) ==
    [FunctionArn |-> "arn:" \o name \o ":7", Version |-> "7"]

ResolvedFunctions == [name \in DeclaredFunctions |-> ResolvedVersion(name)]

\* Keys a lambdaAssociations object may carry: the four event keys and one
\* key that is not an event key (the event's type written in its place).
AssociationKeys == EventKeys \cup { "viewer-request" }

\* A lambdaAssociations object: up to n keys, in the order they were written.
AssociationObjects(keys, n) ==
    { o \in SeqsUpTo([key : keys, fn : DeclaredFunctions], n) :
          \A i, j \in 1..Len(o) : o[i].key = o[j].key => i = j }

\* A route entry with whichever of the three properties are given; an option
\* is << >> (property absent) or << v >> (property present with value v).
Entry(disable, associations, cookies) ==
    CASE disable = << >> /\ associations = << >> /\ cookies = << >> ->
             [unused |-> TRUE]
      [] disable = << >> /\ associations = << >> /\ cookies # << >> ->
             [cookies |-> cookies[1]]
      [] disable = << >> /\ associations # << >> /\ cookies = << >> ->
             [lambdaAssociations |-> associations[1]]
      [] disable = << >> /\ associations # << >> /\ cookies # << >> ->
             [lambdaAssociations |-> associations[1], cookies |-> cookies[1]]
      [] disable # << >> /\ associations = << >> /\ cookies = << >> ->
             [disable |-> disable[1]]
      [] disable # << >> /\ associations = << >> /\ cookies # << >> ->
             [disable |-> disable[1], cookies |-> cookies[1]]
      [] disable # << >> /\ associations # << >> /\ cookies = << >> ->
             [disable |-> disable[1], lambdaAssociations |-> associations[1]]
      [] OTHER ->
             [disable |-> disable[1], lambdaAssociations |-> associations[1],
              cookies |-> cookies[1]]

Option(S) == { << >> } \cup { << v >> : v \in S }

\* Every route entry within the bounds.
Entries ==
    { Entry(d, a, c) : d \in Option(BOOLEAN),
                       a \in Option(AssociationObjects(AssociationKeys, MaxAssocKeys)),
                       c \in Option(SeqsUpTo(CookieNames, MaxCookies)) }

\* Association lists a fetched behavior may hold: N = 0, 1, 2 or 4
\* associations to earlier versions of the functions.
OldArn(name) == "arn:" \o name \o ":6"

FetchedAssociation(i) ==
    [LambdaFunctionARN |-> OldArn(IF i % 2 = 1 THEN "my-awesome-function"
                                                ELSE "my-other-awesome-function"),
     EventType |-> CF_LAMBDA_EVENTS[i].value]

FetchedAssociationLists ==
    { << >>,
      << FetchedAssociation(1) >>,
      << FetchedAssociation(2), FetchedAssociation(4) >>,
      << FetchedAssociation(1), FetchedAssociation(2),
         FetchedAssociation(3), FetchedAssociation(4) >> }

\* Cookie policies a fetched behavior may hold: M = 0, 1 or 2 names.
FetchedCookies ==
    { [Forward |-> "all"],
      [Forward |-> "none"],
      [Forward |-> "whitelist",
       WhitelistedNames |-> [Quantity |-> 1, Items |-> << "session" >>]],
      [Forward |-> "whitelist",
       WhitelistedNames |-> [Quantity |-> 2,
                             Items |-> << "session", "oatmeal_cookie" >>]] }

DefaultBehavior(cookies, associations) ==
    [TargetOriginId |-> "origin-default",
     ForwardedValues |-> [QueryString |-> FALSE, Cookies |-> cookies],
     LambdaFunctionAssociations |->
         [Quantity |-> Len(associations), Items |-> associations]]

OrderedBehavior(pattern, cookies, associations) ==
    [PathPattern |-> pattern,
     TargetOriginId |-> "origin-of-" \o pattern,
     ForwardedValues |-> [QueryString |-> TRUE, Cookies |-> cookies],
     LambdaFunctionAssociations |->
         [Quantity |-> Len(associations), Items |-> associations]]

DistributionConfig(default, items) ==
    [CallerReference |-> "ABC123EDF456",
     DefaultCacheBehavior |-> default,
     CacheBehaviors |-> [Quantity |-> Len(items), Items |-> items]]

PathPatterns == { "/pages_contents/*", "*special-route/*", DefaultKey }

PlainDefault == DefaultBehavior([Forward |-> "all"], << >>)

\* The route entries of the connector's tests and of the README, one with
\* `disable: false`, one naming a function that was not resolved.
WideEntries ==
    { [cookies |-> << "oatmeal_cookie", "chocolate-cookie" >>,
       lambdaAssociations |->
           << [key |-> "viewerResponse", fn |-> "my-other-awesome-function"],
              [key |-> "originRequest", fn |-> "my-awesome-function"] >>],
      [lambdaAssociations |->
           << [key |-> "originResponse", fn |-> "my-other-awesome-function"] >>],
      [disable |-> TRUE],
      [disable |-> FALSE,
       cookies |-> << "chocolate-cookie" >>,
       lambdaAssociations |->
           << [key |-> "viewerRequest", fn |-> "my-awesome-function"] >>],
      [lambdaAssociations |->
           << [key |-> "viewerRequest", fn |-> "not-a-declared-function"] >>] }

WideFetched ==
    { [cookies |-> [Forward |-> "all"], associations |-> << >>],
      [cookies |-> [Forward |-> "whitelist",
                    WhitelistedNames |->
                        [Quantity |-> 1, Items |-> << "session" >>]],
       associations |-> << FetchedAssociation(2), FetchedAssociation(4) >>] }

\* Ordered behavior lists: up to n behaviors with distinct path patterns.
BehaviorLists(n) ==
    { [i \in 1..Len(ps) |->
           OrderedBehavior(ps[i], fs[i].cookies, fs[i].associations)] :
          ps \in { q \in SeqsUpTo(PathPatterns, n) : Injective(q) },
          fs \in [1..n -> WideFetched] }

RouteTables ==
    UNION { [K -> WideEntries] : K \in SUBSET PathPatterns }

(***************************************************************************)
(* The resolution service is idle while the merge is examined.             *)
(***************************************************************************)
\* No deployFunctions run is modelled.
DeployIdle ==
    /\ serverless = << >>
    /\ run = << >>
    /\ store = << >>
    /\ modifications = 0

ResolveIdle ==
    /\ service = << >>
    /\ calls = << >>
    /\ responses = << >>
    /\ pending = FALSE
    /\ status = "idle"
    /\ result = << >>
    /\ uncaught = "none"

\* The merge starts from a fetched config and a route table.
MergeStart(config, table) ==
    /\ distributionConfig = config
    /\ fetchedConfig = config
    /\ previousConfig = config
    /\ behaviorsConfig = table
    /\ lambdaFunctions = ResolvedFunctions
    /\ merges = 0
    /\ threw = FALSE
    /\ ResolveIdle
    /\ DeployIdle

\* One behavior in every fetched state, merged with every entry: the default
\* behavior under the reserved key, or one ordered behavior under its pattern.
DeepInit ==
    \E c \in FetchedCookies, a \in FetchedAssociationLists, e \in Entries :
        \/ MergeStart(DistributionConfig(DefaultBehavior(c, a), << >>),
                      DefaultKey :> e)
        \/ MergeStart(DistributionConfig(PlainDefault,
                          << OrderedBehavior("/pages_contents/*", c, a) >>),
                      "/pages_contents/*" :> e)

\* Several behaviors and several routes at once.
WideInit ==
    \E f \in WideFetched, items \in BehaviorLists(MaxBehaviors),
       t \in RouteTables :
        MergeStart(DistributionConfig(
                       DefaultBehavior(f.cookies, f.associations), items), t)

Init == DeepInit \/ WideInit

\* One call addNewConfigToDistribution( distributionConfig, lambdaFunctions,
\* behaviorsConfig ) on the config object; the config is mutated in place.
AddNewConfigToDistribution ==
    /\ merges < MaxMerges
    /\ LET r == addNewConfigToDistribution(distributionConfig, lambdaFunctions,
                                           behaviorsConfig)
       IN /\ distributionConfig' = r.value
          /\ threw' = r.threw
    /\ previousConfig' = distributionConfig
    /\ merges' = merges + 1
    /\ UNCHANGED << behaviorsConfig, lambdaFunctions, fetchedConfig >>
    /\ UNCHANGED resolveVars
    /\ UNCHANGED deployVars

Next == AddNewConfigToDistribution

Spec == Init /\ [][Next]_vars

(***************************************************************************)
(* CloudfrontPlugin.getLatestVersion: the walk over the pages of           *)
(* listVersionsByFunction for one function.                                *)
(*                                                                         *)
(* The service is a function from the marker of a call ("" for a call      *)
(* without Marker) to the page it answers with; a page with no next page   *)
(* has no NextMarker.                                                      *)
(***************************************************************************)
Markers == { "marker-1", "marker-2" }

NoMarker == ""

FunctionName == "my-awesome-function"

PublishedVersions ==
    { [Version |-> v, FunctionArn |-> "arn:" \o FunctionName \o ":" \o v] :
          v \in { "6", "7" } }

Pages ==
    { [Versions |-> vs] : vs \in SeqsUpTo(PublishedVersions, MaxVersions) }
    \cup
    { [Versions |-> vs, NextMarker |-> m] :
          vs \in SeqsUpTo(PublishedVersions, MaxVersions), m \in Markers }

Services == [Markers \cup { NoMarker } -> Pages]

\* Lines 124-134: the params of one call; Marker is set only for a truthy
\* paginationMarker.
ListVersionsParams(functionName, paginationMarker) ==
    IF paginationMarker # NoMarker
    THEN [FunctionName |-> functionName, MaxItems |-> MaxItems,
          Marker |-> paginationMarker]
    ELSE [FunctionName |-> functionName, MaxItems |-> MaxItems]

\* The marker a call was made with.
MarkerOf(params) ==
    IF "Marker" \in DOMAIN params THEN params.Marker ELSE NoMarker

\* MUTANT: the first page is taken for the last one.
IsPaginated_never(data) == FALSE

\* Line 145: `if ( data.NextMarker )`
IsPaginated(data) == "NextMarker" \in DOMAIN data

\* Line 155: `data.Versions.pop()`, undefined (here << >>) on an empty list.
LastVersion(data) ==
    IF Len(data.Versions) = 0
    THEN << >>
    ELSE << data.Versions[Len(data.Versions)] >>

ResolveStart ==
    /\ distributionConfig = DistributionConfig(PlainDefault, << >>)
    /\ fetchedConfig = distributionConfig
    /\ previousConfig = distributionConfig
    /\ behaviorsConfig = << >>
    /\ lambdaFunctions = << >>
    /\ merges = 0
    /\ threw = FALSE

InitResolve ==
    /\ ResolveStart
    /\ service \in Services
    /\ calls = << >>
    /\ responses = << >>
    /\ pending = FALSE
    /\ status = "idle"
    /\ result = << >>
    /\ uncaught = "none"
    /\ DeployIdle

\* getLatestVersion( functionName ): the promise is created and the first
\* listVersionsByFunction call is issued, without Marker.
GetLatestVersion ==
    /\ status = "idle"
    /\ status' = "pending"
    /\ calls' = << ListVersionsParams(FunctionName, NoMarker) >>
    /\ pending' = TRUE
    /\ UNCHANGED << service, responses, result, uncaught >>
    /\ UNCHANGED mergeVars
    /\ UNCHANGED deployVars

\* The callback of the call in flight, with data (lines 144-157).  With a
\* NextMarker the function calls itself with that marker and passes the
\* inner result on; otherwise it resolves with the popped version, and
\* `lastVersion.Version` throws a TypeError when nothing was popped.
ListVersionsData ==
    /\ pending
    /\ LET data == service[MarkerOf(calls[Len(calls)])] IN
       /\ responses' = Append(responses, data)
       /\ IF IsPaginated(data)
          THEN /\ Len(calls) < MaxCalls
               /\ calls' = Append(calls,
                               ListVersionsParams(FunctionName, data.NextMarker))
               /\ UNCHANGED << pending, status, result, uncaught >>
          ELSE /\ pending' = FALSE
               /\ calls' = calls
               /\ IF LastVersion(data) = << >>
                  THEN /\ uncaught' = "TypeError"
                       /\ UNCHANGED << status, result >>
                  ELSE /\ status' = "resolved"
                       /\ result' = LastVersion(data)[1]
                       /\ uncaught' = uncaught
    /\ UNCHANGED service
    /\ UNCHANGED mergeVars
    /\ UNCHANGED deployVars

\* The callback of the call in flight, with err (lines 138-142): the promise
\* of this call is rejected.  The promise of an outer call is settled only
\* by the `.then` of line 149, which has no rejection handler, so after a
\* follow-up call fails the promise returned to the caller stays pending.
ListVersionsError ==
    /\ pending
    /\ pending' = FALSE
    /\ responses' = Append(responses, [err |-> "ServiceException"])
    /\ IF Len(calls) = 1
       THEN /\ status' = "rejected"
            /\ result' = "ServiceException"
            /\ uncaught' = uncaught
       ELSE /\ uncaught' = "UnhandledRejection"
            /\ UNCHANGED << status, result >>
    /\ UNCHANGED << service, calls >>
    /\ UNCHANGED mergeVars
    /\ UNCHANGED deployVars

NextResolve ==
    \/ GetLatestVersion
    \/ ListVersionsData
    \/ ListVersionsError

SpecResolve == InitResolve /\ [][NextResolve]_vars

(***************************************************************************)
(* deployFunctions                                                         *)
(*                                                                         *)
(* The hook `after:deploy:finalize` runs deployFunctions.  A run reads the *)
(* configuration, resolves the latest version of every function of the    *)
(* service, fetches the distribution, merges the route table into it and   *)
(* writes it back.  Two runs against the same distribution are modelled,   *)
(* each a record in `run`; between two awaits a run executes as one step.  *)
(* CloudFront is the record `store`: it hands out its ETag with the        *)
(* distribution and accepts a write only under the current ETag.           *)
(***************************************************************************)
MaxModifications == 1   \* changes made to the distribution by others

Runs == { "run-1", "run-2" }

DistributionId == "ABC1234DEF"

\* serverless.service.getAllFunctions()
ServiceFunctions == << "my-awesome-function", "my-other-awesome-function" >>

\* serverless.service.getFunction( name ).name
DeployedName(name) == "awesome-service-dev-" \o name

\* An object without own properties is written [unused |-> TRUE].
ObjectKeys(object) == DOMAIN object \ { "unused" }

EmptyMap == [k \in {} |-> << >>]

\* Route tables of a serverless.yml: matching the stored distribution,
\* matching none of its behaviors, and naming a function the service lacks.
ValidTable ==
    "/pages_contents/*" :>
        [lambdaAssociations |->
             << [key |-> "viewerRequest", fn |-> "my-awesome-function"] >>,
         cookies |-> << "oatmeal_cookie" >>]

UnmatchedTable ==
    "*special-route/*" :>
        [lambdaAssociations |->
             << [key |-> "originResponse",
                 fn |-> "my-other-awesome-function"] >>]

UndeclaredTable ==
    "/pages_contents/*" :>
        [lambdaAssociations |->
             << [key |-> "viewerRequest", fn |-> "not-a-declared-function"] >>]

DeployTables == { EmptyMap, ValidTable, UnmatchedTable, UndeclaredTable }

\* Values of custom.cloudfront.behaviors: nothing after the colon, an empty
\* list, or a mapping from route to entry.
BehaviorsValues ==
    { [kind |-> "null", routes |-> EmptyMap],
      [kind |-> "list", routes |-> EmptyMap] }
    \cup { [kind |-> "mapping", routes |-> t] : t \in DeployTables }

CloudfrontSections ==
    { [unused |-> TRUE],
      [distributionId |-> DistributionId],
      [behaviors |-> [kind |-> "mapping", routes |-> ValidTable]] }
    \cup { [distributionId |-> d, behaviors |-> b] :
               d \in { DistributionId, "" }, b \in BehaviorsValues }

Customs ==
    { [unused |-> TRUE] } \cup { [cloudfront |-> c] : c \in CloudfrontSections }

Providers ==
    { [name |-> "aws", region |-> "us-east-1"],
      [name |-> "google", region |-> "us-east-1"],
      [region |-> "us-east-1"] }

ServerlessObjects ==
    [provider : Providers, custom : Customs, functions : { ServiceFunctions }]

\* MUTANT: the provider is not looked at.
getConfiguration_anyProvider(sls) ==
    IF /\ "cloudfront" \in DOMAIN sls.custom
       /\ \/ "distributionId" \notin DOMAIN sls.custom.cloudfront
          \/ "behaviors" \notin DOMAIN sls.custom.cloudfront
    THEN [threw |-> TRUE,
          error |-> "Missing one or more configuration values."]
    ELSE [threw |-> FALSE,
          config |-> IF "cloudfront" \in DOMAIN sls.custom
                     THEN << sls.custom.cloudfront >>
                     ELSE << >>]

\* getConfiguration(): throws, or sets this.config to custom.cloudfront,
\* which is undefined (here << >>) when custom has no such key.
getConfiguration(sls) ==
    IF /\ "cloudfront" \in DOMAIN sls.custom
       /\ \/ "distributionId" \notin DOMAIN sls.custom.cloudfront
          \/ "behaviors" \notin DOMAIN sls.custom.cloudfront
    THEN [threw |-> TRUE,
          error |-> "Missing one or more configuration values."]
    ELSE IF "name" \notin DOMAIN sls.provider \/ sls.provider.name # "aws"
    THEN [threw |-> TRUE,
          error |-> "This plugin only supports the aws provider."]
    ELSE [threw |-> FALSE,
          config |-> IF "cloudfront" \in DOMAIN sls.custom
                     THEN << sls.custom.cloudfront >>
                     ELSE << >>]

\* Lines 62-66: the five tests after which the run returns without changes.
\* `behaviors.length == 0` holds of the empty list only; a mapping has no
\* length.
NoConfiguration(config) ==
    \/ config = << >>
    \/ ObjectKeys(config[1]) = {}
    \/ "distributionId" \notin DOMAIN config[1]
    \/ config[1].distributionId = ""
    \/ "behaviors" \notin DOMAIN config[1]
    \/ config[1].behaviors.kind = "null"
    \/ /\ config[1].behaviors.kind = "list"
       /\ DOMAIN config[1].behaviors.routes = {}

\* this.config and this.config.behaviors of a run that got past line 66.
Config == getConfiguration(serverless).config[1]

Table == Config.behaviors.routes

IdleWalk == [calls |-> << >>, pending |-> FALSE, uncaught |-> "none"]

\* A run before deployFunctions is entered.  `fetched`, `listed`, `gets`,
\* `updates`, `listFailed`, `rejected` and `written` record what the run has
\* done; the program does not read them.
NewRun ==
    [pc |-> "start", error |-> "", index |-> 1, functions |-> EmptyMap,
     walk |-> IdleWalk, distribution |-> << >>, sent |-> << >>,
     fetched |-> << >>, listed |-> FALSE, gets |-> 0, updates |-> 0,
     listFailed |-> FALSE, rejected |-> "", written |-> << >>]

\* MUTANT: the loop over the function names is left after its first round.
Advance_firstOnly(rec, names) ==
    IF rec.index > 1
    THEN [rec EXCEPT !.pc = "fetching", !.walk = IdleWalk, !.gets = @ + 1]
    ELSE [rec EXCEPT
             !.pc = "resolving",
             !.listed = TRUE,
             !.walk = [calls |-> << ListVersionsParams(
                                        DeployedName(names[rec.index]),
                                        NoMarker) >>,
                       pending |-> TRUE, uncaught |-> "none"]]

\* getLambdaFunctions, from one await to the next: the next function name
\* gets its getLatestVersion call; after the last one deployFunctions goes
\* on to getDistribution (line 81).
Advance(rec, names) ==
    IF rec.index > Len(names)
    THEN [rec EXCEPT !.pc = "fetching", !.walk = IdleWalk, !.gets = @ + 1]
    ELSE [rec EXCEPT
             !.pc = "resolving",
             !.listed = TRUE,
             !.walk = [calls |-> << ListVersionsParams(
                                        DeployedName(names[rec.index]),
                                        NoMarker) >>,
                       pending |-> TRUE, uncaught |-> "none"]]

\* deployFunctions up to its first await.
deployFunctions(rec, sls) ==
    LET c == getConfiguration(sls) IN
    IF c.threw
    THEN [rec EXCEPT !.pc = "failed", !.error = c.error]
    ELSE IF NoConfiguration(c.config)
    THEN [rec EXCEPT !.pc = "returned"]
    ELSE Advance(rec, sls.functions)

\* The pages listVersionsByFunction may answer a run with.
DeployPages(name) ==
    { [Versions |-> << ResolvedVersion(name) >>],
      [Versions |-> << >>],
      [Versions |-> << [FunctionArn |-> "arn:" \o name \o ":6",
                        Version |-> "6"] >>,
       NextMarker |-> "marker-1"] }

\* The callback of getLatestVersion with data, in a run.
OnListVersionsData(rec, names, data) ==
    IF IsPaginated(data)
    THEN [rec EXCEPT !.walk.calls =
              Append(@, ListVersionsParams(DeployedName(names[rec.index]),
                                           data.NextMarker))]
    ELSE IF LastVersion(data) = << >>
    THEN [rec EXCEPT !.walk.pending = FALSE, !.walk.uncaught = "TypeError"]
    ELSE Advance([rec EXCEPT
                     !.functions = (names[rec.index] :> LastVersion(data)[1])
                                       @@ @,
                     !.index = @ + 1],
                 names)

\* MUTANT: a failed listing resolves to undefined and the loop goes on.
OnListVersionsError_resolves(rec, names) ==
    Advance([rec EXCEPT !.index = @ + 1], names)

\* The callback of getLatestVersion with err, in a run: a failed first call
\* rejects getLatestVersion and with it deployFunctions; after a failed
\* follow-up call the promise awaited at line 105 stays pending.
OnListVersionsError(rec, names) ==
    IF Len(rec.walk.calls) = 1
    THEN [rec EXCEPT !.pc = "failed", !.error = "ServiceException",
                     !.walk.pending = FALSE]
    ELSE [rec EXCEPT !.walk.pending = FALSE,
                     !.walk.uncaught = "UnhandledRejection"]

\* What getDistribution resolves to.
GetDistributionResponse(st) ==
    [ETag |-> st.ETag,
     Distribution |-> [Id |-> st.Id,
                       DistributionConfig |-> st.DistributionConfig]]

\* MUTANT: the write is sent without the token of the fetch.
updateDistributionConfigParams_noToken(distribution) ==
    [Id |-> distribution.Distribution.Id,
     IfMatch |-> 0,
     DistributionConfig |-> distribution.Distribution.DistributionConfig]

\* The params of cloudfront.updateDistribution (index.js lines 372-376).
updateDistributionConfigParams(distribution) ==
    [Id |-> distribution.Distribution.Id,
     IfMatch |-> distribution.ETag,
     DistributionConfig |-> distribution.Distribution.DistributionConfig]

\* deployFunctions from the answer of getDistribution to the call of
\* updateDistribution (lines 81-86); a throw of the merge rejects the run.
OnDistribution(rec, distribution, table) ==
    LET m == addNewConfigToDistribution(
                 distribution.Distribution.DistributionConfig,
                 rec.functions, table)
    IN IF m.threw
       THEN [rec EXCEPT !.pc = "failed", !.error = "TypeError",
                        !.distribution = << distribution >>]
       ELSE LET merged == [distribution EXCEPT
                              !.Distribution.DistributionConfig = m.value]
            IN [rec EXCEPT
                   !.pc = "updating",
                   !.distribution = << merged >>,
                   !.sent = << updateDistributionConfigParams(merged) >>,
                   !.updates = @ + 1]

\* MUTANT: a rejected write is logged and the run carries on.
OnUpdateError_swallowed(rec, err) == [rec EXCEPT !.pc = "finished"]

\* updateDistributionConfig logs the error and throws it again (index.js
\* lines 380-383); deployFunctions does not catch it.
OnUpdateError(rec, err) == [rec EXCEPT !.pc = "failed", !.error = err]

\* CloudFront takes a write under the current ETag only.
StoreAccepts(st, params) == params.Id = st.Id /\ params.IfMatch = st.ETag

StoredConfig ==
    DistributionConfig(PlainDefault,
        << OrderedBehavior("/pages_contents/*", [Forward |-> "all"], << >>) >>)

ModifiedByOthers(config) ==
    [config EXCEPT !.DefaultCacheBehavior.ForwardedValues.Cookies =
                       [Forward |-> "none"]]

InitDeploy ==
    /\ ResolveStart
    /\ ResolveIdle
    /\ serverless \in ServerlessObjects
    /\ run = [r \in Runs |-> NewRun]
    /\ store = [Id |-> DistributionId, ETag |-> 1,
                DistributionConfig |-> StoredConfig]
    /\ modifications = 0

DeployFunctions(r) ==
    /\ run[r].pc = "start"
    /\ run' = [run EXCEPT ![r] = deployFunctions(@, serverless)]
    /\ UNCHANGED << serverless, store, modifications >>
    /\ UNCHANGED << mergeVars, resolveVars >>

RunListVersionsData(r) ==
    /\ run[r].pc = "resolving"
    /\ run[r].walk.pending
    /\ \E data \in DeployPages(serverless.functions[run[r].index]) :
           /\ IsPaginated(data) => Len(run[r].walk.calls) < MaxCalls
           /\ run' = [run EXCEPT
                         ![r] = OnListVersionsData(@, serverless.functions,
                                                   data)]
    /\ UNCHANGED << serverless, store, modifications >>
    /\ UNCHANGED << mergeVars, resolveVars >>

RunListVersionsError(r) ==
    /\ run[r].pc = "resolving"
    /\ run[r].walk.pending
    /\ run' = [run EXCEPT
                  ![r] = [OnListVersionsError(@, serverless.functions)
                              EXCEPT !.listFailed = TRUE]]
    /\ UNCHANGED << serverless, store, modifications >>
    /\ UNCHANGED << mergeVars, resolveVars >>

GetDistributionData(r) ==
    /\ run[r].pc = "fetching"
    /\ run' = [run EXCEPT
                  ![r] = [OnDistribution(@, GetDistributionResponse(store),
                                         Table)
                              EXCEPT !.fetched =
                                         << GetDistributionResponse(store) >>]]
    /\ UNCHANGED << serverless, store, modifications >>
    /\ UNCHANGED << mergeVars, resolveVars >>

\* getDistribution logs the error and throws it again (index.js 354-358).
GetDistributionError(r) ==
    /\ run[r].pc = "fetching"
    /\ run' = [run EXCEPT ![r].pc = "failed", ![r].error = "AccessDenied"]
    /\ UNCHANGED << serverless, store, modifications >>
    /\ UNCHANGED << mergeVars, resolveVars >>

UpdateDistributionData(r) ==
    /\ run[r].pc = "updating"
    /\ StoreAccepts(store, run[r].sent[1])
    /\ store' = [store EXCEPT
                    !.DistributionConfig = run[r].sent[1].DistributionConfig,
                    !.ETag = @ + 1]
    /\ run' = [run EXCEPT ![r].pc = "finished", ![r].written = << store >>]
    /\ UNCHANGED << serverless, modifications >>
    /\ UNCHANGED << mergeVars, resolveVars >>

UpdateDistributionError(r) ==
    /\ run[r].pc = "updating"
    /\ \E err \in { "PreconditionFailed", "ServiceException" } :
           /\ err = "PreconditionFailed" => ~StoreAccepts(store, run[r].sent[1])
           /\ run' = [run EXCEPT
                         ![r] = [OnUpdateError(@, err)
                                     EXCEPT !.rejected = err]]
    /\ UNCHANGED << serverless, store, modifications >>
    /\ UNCHANGED << mergeVars, resolveVars >>

\* Somebody else changes the distribution.
ExternalModification ==
    /\ modifications < MaxModifications
    /\ store' = [store EXCEPT
                    !.DistributionConfig = ModifiedByOthers(@),
                    !.ETag = @ + 1]
    /\ modifications' = modifications + 1
    /\ UNCHANGED << serverless, run >>
    /\ UNCHANGED << mergeVars, resolveVars >>

NextDeploy ==
    \/ \E r \in Runs : DeployFunctions(r)
    \/ \E r \in Runs : RunListVersionsData(r)
    \/ \E r \in Runs : RunListVersionsError(r)
    \/ \E r \in Runs : GetDistributionData(r)
    \/ \E r \in Runs : GetDistributionError(r)
    \/ \E r \in Runs : UpdateDistributionData(r)
    \/ \E r \in Runs : UpdateDistributionError(r)
    \/ ExternalModification

SpecDeploy == InitDeploy /\ [][NextDeploy]_vars

(***************************************************************************)
(* Vocabulary of the properties.  Slot 0 is the default behavior, slot i   *)
(* the i-th ordered behavior; a slot is addressed when the table holds an  *)
(* entry under its key.                                                    *)
(***************************************************************************)
Slots(config) == 0..Len(config.CacheBehaviors.Items)

BehaviorAt(config, s) ==
    IF s = 0 THEN config.DefaultCacheBehavior ELSE config.CacheBehaviors.Items[s]

KeyAt(config, s) ==
    IF s = 0 THEN DefaultKey ELSE config.CacheBehaviors.Items[s].PathPattern

Before(s) == BehaviorAt(previousConfig, s)

After(s) == BehaviorAt(distributionConfig, s)

Addressed(s) == KeyAt(previousConfig, s) \in DOMAIN behaviorsConfig

EntryOf(s) == behaviorsConfig[KeyAt(previousConfig, s)]

Returned == merges >= 1 /\ ~threw

Carries(entry, property) == property \in DOMAIN entry

\* The four lifecycle events in the order the specification fixes.
LifecycleOrder ==
    << [key |-> "viewerRequest",  type |-> "viewer-request"],
       [key |-> "viewerResponse", type |-> "viewer-response"],
       [key |-> "originRequest",  type |-> "origin-request"],
       [key |-> "originResponse", type |-> "origin-response"] >>

Specifies(associations, key) ==
    \E i \in 1..Len(associations) : associations[i].key = key

SpecifiedEvents(associations) ==
    { i \in 1..Len(LifecycleOrder) : Specifies(associations, LifecycleOrder[i].key) }

\* The event types an association list holds, in list order.
EventTypesOf(list) == [i \in 1..Len(list) |-> list[i].EventType]

\* The specified events' types in the fixed order.
ExpectedEventTypes(associations) ==
    LET picked == SelectSeq(LifecycleOrder,
                            LAMBDA e : Specifies(associations, e.key))
    IN [i \in 1..Len(picked) |-> picked[i].type]

Associations(behavior) == behavior.LambdaFunctionAssociations

CookiePolicy(behavior) == behavior.ForwardedValues.Cookies

ResolvedArns == { lambdaFunctions[n].FunctionArn : n \in DOMAIN lambdaFunctions }

(***************************************************************************)
(* C1  Selectivity: an ordered cache behavior whose PathPattern is not a   *)
(* key of the route table is the same after addNewConfigToDistribution as  *)
(* before it, in every field.                                              *)
(***************************************************************************)
C1_Selectivity ==
    merges >= 1 =>
        \A i \in 1..Len(previousConfig.CacheBehaviors.Items) :
            previousConfig.CacheBehaviors.Items[i].PathPattern
                    \notin DOMAIN behaviorsConfig
                => /\ i <= Len(distributionConfig.CacheBehaviors.Items)
                   /\ distributionConfig.CacheBehaviors.Items[i]
                          = previousConfig.CacheBehaviors.Items[i]

\* A merge that changed one ordered behavior and passed over another.
C1_Witness ==
    /\ merges = 1
    /\ ~threw
    /\ \E i, j \in 1..Len(previousConfig.CacheBehaviors.Items) :
           /\ ~Addressed(i)
           /\ Addressed(j)
           /\ After(j) # Before(j)
           /\ After(i) = Before(i)
           /\ Associations(Before(i)).Quantity > 0

(***************************************************************************)
(* C2  Disable clears: after a merge, a behavior (default or ordered)      *)
(* whose entry has disable = true holds no association (Quantity 0, no     *)
(* Items), cookie mode 'none' and an empty whitelist (Quantity 0, no       *)
(* Items), whatever it held before and whatever else the entry carries.    *)
(***************************************************************************)
Cleared(behavior) ==
    /\ Associations(behavior) = [Quantity |-> 0, Items |-> << >>]
    /\ CookiePolicy(behavior) =
           [Forward |-> "none",
            WhitelistedNames |-> [Quantity |-> 0, Items |-> << >>]]

DisableTrue(entry) == Carries(entry, "disable") /\ entry.disable = TRUE

C2_DisableClears ==
    Returned =>
        \A s \in Slots(distributionConfig) :
            (Addressed(s) /\ DisableTrue(EntryOf(s))) => Cleared(After(s))

\* An ordered behavior with 4 associations and 2 whitelisted cookies was
\* cleared by an entry that also carries lambdaAssociations and cookies.
C2_Witness ==
    /\ merges = 1
    /\ ~threw
    /\ \E s \in Slots(distributionConfig) :
           /\ s >= 1
           /\ Addressed(s)
           /\ DisableTrue(EntryOf(s))
           /\ Carries(EntryOf(s), "lambdaAssociations")
           /\ SpecifiedEvents(EntryOf(s).lambdaAssociations) # {}
           /\ Carries(EntryOf(s), "cookies")
           /\ Len(EntryOf(s).cookies) > 0
           /\ Associations(Before(s)).Quantity = 4
           /\ CookiePolicy(Before(s)).Forward = "whitelist"
           /\ CookiePolicy(Before(s)).WhitelistedNames.Quantity = 2
           /\ Cleared(After(s))

(***************************************************************************)
(* C3  Replace, not append.                                                *)
(* As stated: after merging an entry that carries lambdaAssociations, the  *)
(* behavior's association count equals the number of the four lifecycle    *)
(* events the entry specifies, for every subset of events, none included.  *)
(***************************************************************************)
StepThree(s) ==
    /\ Addressed(s)
    /\ ~Carries(EntryOf(s), "disable")
    /\ Carries(EntryOf(s), "lambdaAssociations")

C3_CountIsSpecified ==
    Returned =>
        \A s \in Slots(distributionConfig) :
            StepThree(s) =>
                LET n == Cardinality(SpecifiedEvents(EntryOf(s).lambdaAssociations))
                IN /\ Associations(After(s)).Quantity = n
                   /\ Len(Associations(After(s)).Items) = n

(***************************************************************************)
(* C3 as amended: an entry with lambdaAssociations that specifies at least *)
(* one of the four events replaces the association list: the count is the  *)
(* number of events specified, the events are the specified ones and every *)
(* function identity is a resolved one, so nothing of the prior list is    *)
(* left, also when the same entry is merged a second time.  An entry that  *)
(* specifies none of the four events leaves the association list as it was.*)
(***************************************************************************)
C3_ReplaceNotAppend ==
    Returned =>
        \A s \in Slots(distributionConfig) :
            StepThree(s) =>
                LET specified == SpecifiedEvents(EntryOf(s).lambdaAssociations)
                    list == Associations(After(s))
                IN IF specified # {}
                   THEN /\ list.Quantity = Cardinality(specified)
                        /\ Len(list.Items) = Cardinality(specified)
                        /\ { list.Items[i].EventType : i \in 1..Len(list.Items) }
                               = { LifecycleOrder[e].type : e \in specified }
                        /\ \A i \in 1..Len(list.Items) :
                               list.Items[i].LambdaFunctionARN \in ResolvedArns
                   ELSE list = Associations(Before(s))

\* The same entry with two events was merged twice into a behavior fetched
\* with four associations: two associations after each pass.
C3_Witness ==
    /\ merges = 2
    /\ ~threw
    /\ \E s \in Slots(distributionConfig) :
           /\ StepThree(s)
           /\ Cardinality(SpecifiedEvents(EntryOf(s).lambdaAssociations)) = 2
           /\ Associations(BehaviorAt(fetchedConfig, s)).Quantity = 4
           /\ Associations(Before(s)).Quantity = 2
           /\ Associations(After(s)).Quantity = 2

(***************************************************************************)
(* C4  Event ordering: the association list written for an entry lists the *)
(* specified events in the order viewer-request, viewer-response,          *)
(* origin-request, origin-response, whatever the key order of the entry.   *)
(***************************************************************************)
C4_EventOrder ==
    Returned =>
        \A s \in Slots(distributionConfig) :
            (StepThree(s) /\ SpecifiedEvents(EntryOf(s).lambdaAssociations) # {})
                => EventTypesOf(Associations(After(s)).Items)
                       = ExpectedEventTypes(EntryOf(s).lambdaAssociations)

\* The entry writes originRequest before viewerResponse; the list has
\* viewer-response before origin-request.
C4_Witness ==
    /\ merges = 1
    /\ ~threw
    /\ \E s \in Slots(distributionConfig) :
           /\ StepThree(s)
           /\ Len(EntryOf(s).lambdaAssociations) = 2
           /\ EntryOf(s).lambdaAssociations[1].key = "originRequest"
           /\ EntryOf(s).lambdaAssociations[2].key = "viewerResponse"
           /\ EventTypesOf(Associations(After(s)).Items)
                  = << "viewer-response", "origin-request" >>

(***************************************************************************)
(* C6  Cookie whitelist replace: after merging an entry without disable    *)
(* whose cookies list is not empty, the behavior's cookie policy is mode   *)
(* 'whitelist' with exactly the given names in the given order, duplicates *)
(* kept, and Quantity equal to the length of the list, whatever the policy *)
(* was before.                                                             *)
(***************************************************************************)
StepFour(s) ==
    /\ Addressed(s)
    /\ ~Carries(EntryOf(s), "disable")
    /\ Carries(EntryOf(s), "cookies")

C6_CookieWhitelistReplace ==
    Returned =>
        \A s \in Slots(distributionConfig) :
            (StepFour(s) /\ Len(EntryOf(s).cookies) > 0)
                => CookiePolicy(After(s)) =
                       [Forward |-> "whitelist",
                        WhitelistedNames |->
                            [Quantity |-> Len(EntryOf(s).cookies),
                             Items |-> EntryOf(s).cookies]]

\* A list naming one cookie twice replaced a whitelist of two other names.
C6_Witness ==
    /\ merges = 1
    /\ ~threw
    /\ \E s \in Slots(distributionConfig) :
           /\ StepFour(s)
           /\ EntryOf(s).cookies = << "chocolate-cookie", "chocolate-cookie" >>
           /\ CookiePolicy(Before(s)).Forward = "whitelist"
           /\ CookiePolicy(Before(s)).WhitelistedNames.Items
                  = << "session", "oatmeal_cookie" >>
           /\ CookiePolicy(After(s)).Forward = "whitelist"
           /\ CookiePolicy(After(s)).WhitelistedNames.Quantity = 2
           /\ CookiePolicy(After(s)).WhitelistedNames.Items
                  = << "chocolate-cookie", "chocolate-cookie" >>

(***************************************************************************)
(* C7  Steps 3 and 4 are independent: an entry with lambdaAssociations and *)
(* no cookies leaves the cookie policy as it was (no WhitelistedNames      *)
(* appears where there was none); an entry with cookies and no             *)
(* lambdaAssociations leaves the association list as it was; an entry with *)
(* both writes the associations and the whitelist in the same pass.        *)
(***************************************************************************)
C7_StepsIndependent ==
    Returned =>
        \A s \in Slots(distributionConfig) :
            (Addressed(s) /\ ~Carries(EntryOf(s), "disable")) =>
                LET entry == EntryOf(s) IN
                /\ (Carries(entry, "lambdaAssociations") /\ ~Carries(entry, "cookies"))
                       => CookiePolicy(After(s)) = CookiePolicy(Before(s))
                /\ (Carries(entry, "cookies") /\ ~Carries(entry, "lambdaAssociations"))
                       => Associations(After(s)) = Associations(Before(s))
                /\ (/\ Carries(entry, "lambdaAssociations")
                    /\ Carries(entry, "cookies")
                    /\ SpecifiedEvents(entry.lambdaAssociations) # {}
                    /\ Len(entry.cookies) > 0)
                       => /\ Associations(After(s)).Quantity
                                 = Cardinality(SpecifiedEvents(entry.lambdaAssociations))
                          /\ EventTypesOf(Associations(After(s)).Items)
                                 = ExpectedEventTypes(entry.lambdaAssociations)
                          /\ CookiePolicy(After(s)).Forward = "whitelist"
                          /\ CookiePolicy(After(s)).WhitelistedNames.Items
                                 = entry.cookies

\* One merge in which a behavior got two associations and two cookies from
\* an entry with both, and another behavior got one association from an
\* entry without cookies and still has no WhitelistedNames.
C7_Witness ==
    /\ merges = 1
    /\ ~threw
    /\ \E s, t \in Slots(distributionConfig) :
           /\ s # t
           /\ StepThree(s) /\ StepFour(s)
           /\ Associations(After(s)).Quantity = 2
           /\ Associations(After(s)) # Associations(Before(s))
           /\ CookiePolicy(After(s)).Forward = "whitelist"
           /\ CookiePolicy(After(s)).WhitelistedNames.Quantity = 2
           /\ CookiePolicy(After(s)) # CookiePolicy(Before(s))
           /\ StepThree(t) /\ ~Carries(EntryOf(t), "cookies")
           /\ Associations(After(t)).Quantity = 1
           /\ Associations(After(t)) # Associations(Before(t))
           /\ "WhitelistedNames" \notin DOMAIN CookiePolicy(After(t))

(***************************************************************************)
(* C8  Default route: the entry under the reserved key                     *)
(* 'DefaultCacheBehavior' changes only the default behavior: an ordered    *)
(* behavior that no other key of the table addresses is the same after the *)
(* merge as before it; a table without the reserved key leaves the default *)
(* behavior as it was.                                                     *)
(***************************************************************************)
C8_DefaultRouteOnly ==
    Returned =>
        /\ \A i \in 1..Len(previousConfig.CacheBehaviors.Items) :
               previousConfig.CacheBehaviors.Items[i].PathPattern
                       \notin (DOMAIN behaviorsConfig \ { "DefaultCacheBehavior" })
                   => After(i) = Before(i)
        /\ "DefaultCacheBehavior" \notin DOMAIN behaviorsConfig
               => After(0) = Before(0)

(***************************************************************************)
(* C9  The disable flag takes effect only when it is true: a behavior      *)
(* whose entry has disable = false is not cleared; the entry's             *)
(* lambdaAssociations and cookies are applied, and what the entry does not *)
(* carry is left as it was.                                                *)
(***************************************************************************)
C9_DisableOnlyWhenTrue ==
    Returned =>
        \A s \in Slots(distributionConfig) :
            (/\ Addressed(s)
             /\ Carries(EntryOf(s), "disable")
             /\ EntryOf(s).disable = FALSE) =>
                LET entry == EntryOf(s) IN
                /\ IF /\ Carries(entry, "lambdaAssociations")
                      /\ SpecifiedEvents(entry.lambdaAssociations) # {}
                   THEN EventTypesOf(Associations(After(s)).Items)
                            = ExpectedEventTypes(entry.lambdaAssociations)
                   ELSE Associations(After(s)) = Associations(Before(s))
                /\ IF Carries(entry, "cookies") /\ Len(entry.cookies) > 0
                   THEN /\ CookiePolicy(After(s)).Forward = "whitelist"
                        /\ CookiePolicy(After(s)).WhitelistedNames.Items
                               = entry.cookies
                   ELSE CookiePolicy(After(s)) = CookiePolicy(Before(s))

(***************************************************************************)
(* C10  Idempotence: a second addNewConfigToDistribution with the same     *)
(* route table and the same functions leaves the config as the first one   *)
(* left it.                                                                *)
(***************************************************************************)
C10_Idempotent ==
    merges >= 2 => distributionConfig = previousConfig

\* Two merges; the first one changed associations and cookies.
C10_Witness ==
    /\ merges = 2
    /\ ~threw
    /\ \E s \in Slots(distributionConfig) :
           /\ Associations(After(s)) # Associations(BehaviorAt(fetchedConfig, s))
           /\ Associations(After(s)).Quantity > 0
           /\ CookiePolicy(After(s)) # CookiePolicy(BehaviorAt(fetchedConfig, s))
           /\ CookiePolicy(After(s)).Forward = "whitelist"
    /\ distributionConfig = previousConfig

(***************************************************************************)
(* C5  Pagination correctness: when getLatestVersion resolves, the value   *)
(* is the last element of the final page, the page without a next-page     *)
(* cursor; every page before it carried a cursor, the first call carried   *)
(* none, and each follow-up call carried exactly the cursor of the         *)
(* preceding response.  A walk that got all its pages and whose final page *)
(* holds a version does resolve.                                           *)
(***************************************************************************)
C5_Pagination ==
    /\ status = "resolved" =>
           /\ Len(responses) = Len(calls)
           /\ Len(responses) >= 1
           /\ "NextMarker" \notin DOMAIN responses[Len(responses)]
           /\ Len(responses[Len(responses)].Versions) >= 1
           /\ result = responses[Len(responses)].Versions[
                           Len(responses[Len(responses)].Versions)]
           /\ \A k \in 1..(Len(responses) - 1) :
                  "NextMarker" \in DOMAIN responses[k]
           /\ "Marker" \notin DOMAIN calls[1]
           /\ \A k \in 2..Len(calls) :
                  /\ "Marker" \in DOMAIN calls[k]
                  /\ calls[k].Marker = responses[k - 1].NextMarker
    /\ (/\ status = "pending"
        /\ ~pending
        /\ "Versions" \in DOMAIN responses[Len(responses)])
           => Len(responses[Len(responses)].Versions) = 0

\* Three pages; the value is the last version of the third page and differs
\* from the last version of the first and of the second page.
C5_Witness ==
    /\ status = "resolved"
    /\ Len(responses) = 3
    /\ Len(responses[1].Versions) = 2
    /\ Len(responses[2].Versions) = 2
    /\ result = responses[3].Versions[Len(responses[3].Versions)]
    /\ result # responses[1].Versions[2]
    /\ result # responses[2].Versions[2]
    /\ calls[2].Marker = responses[1].NextMarker
    /\ calls[3].Marker = responses[2].NextMarker

(***************************************************************************)
(* C11  A merge with an empty route table, or with a table none of whose   *)
(* keys is a PathPattern of the distribution or the reserved default key,  *)
(* returns the config as it was and throws nothing; no merge ever adds or  *)
(* removes an ordered behavior.                                            *)
(***************************************************************************)
PatternsOf(config) ==
    { config.CacheBehaviors.Items[i].PathPattern :
          i \in 1..Len(config.CacheBehaviors.Items) }

NoKeyMatches ==
    \A k \in DOMAIN behaviorsConfig :
        k # "DefaultCacheBehavior" /\ k \notin PatternsOf(previousConfig)

C11_UnmatchedIgnored ==
    merges >= 1 =>
        /\ NoKeyMatches => (distributionConfig = previousConfig /\ ~threw)
        /\ Len(distributionConfig.CacheBehaviors.Items)
               = Len(previousConfig.CacheBehaviors.Items)
        /\ distributionConfig.CacheBehaviors.Quantity
               = previousConfig.CacheBehaviors.Quantity

\* A table with two routes, one of them naming a function that was not
\* resolved, merged into a distribution that has neither pattern.
C11_Witness ==
    /\ merges = 1
    /\ Cardinality(DOMAIN behaviorsConfig) = 2
    /\ NoKeyMatches
    /\ \E k \in DOMAIN behaviorsConfig :
           /\ Carries(behaviorsConfig[k], "lambdaAssociations")
           /\ \E i \in 1..Len(behaviorsConfig[k].lambdaAssociations) :
                  behaviorsConfig[k].lambdaAssociations[i].fn
                      \notin DOMAIN lambdaFunctions
    /\ Len(distributionConfig.CacheBehaviors.Items) = 1
    /\ distributionConfig = fetchedConfig
    /\ ~threw

(***************************************************************************)
(* C20  Pagination never repeats a cursor: within one resolution no two    *)
(* listVersionsByFunction calls carry the same cursor, whatever the        *)
(* service answers, a cursor it has already returned included.             *)
(***************************************************************************)
C20_NoRepeatedCursor ==
    \A i, j \in 1..Len(calls) :
        MarkerOf(calls[i]) = MarkerOf(calls[j]) => i = j

(***************************************************************************)
(* Vocabulary of the deployFunctions properties.                           *)
(***************************************************************************)
ProviderIsAws ==
    "name" \in DOMAIN serverless.provider /\ serverless.provider.name = "aws"

HasSection == "cloudfront" \in DOMAIN serverless.custom

Section == serverless.custom.cloudfront

SectionComplete ==
    HasSection /\ { "distributionId", "behaviors" } \subseteq DOMAIN Section

\* The functions the routes of a table name.
Referenced(table) ==
    UNION { { table[k].lambdaAssociations[i].fn :
                  i \in 1..Len(table[k].lambdaAssociations) } :
            k \in { k \in DOMAIN table :
                        Carries(table[k], "lambdaAssociations") } }

ValidConfiguration ==
    /\ ProviderIsAws
    /\ SectionComplete
    /\ Section.distributionId = DistributionId
    /\ Section.behaviors.kind = "mapping"
    /\ DOMAIN Section.behaviors.routes # {}
    /\ Referenced(Section.behaviors.routes) \subseteq Range(serverless.functions)

NoExternalCall(s) == ~s.listed /\ s.gets = 0 /\ s.updates = 0

NothingFailed(s) ==
    s.error = "" /\ s.walk.uncaught = "none" /\ s.rejected = ""

NothingInFlight(s) ==
    ~s.walk.pending /\ s.pc \notin { "fetching", "updating" }

(***************************************************************************)
(* C12  With a valid, non-empty configuration a run calls getDistribution  *)
(* at most once and only when every function of the service is resolved    *)
(* and no listVersions call is open; it calls updateDistribution at most   *)
(* once, after that fetch, with the merge of the fetched config; and a run *)
(* in which nothing failed and no call is open has made exactly one write, *)
(* also when no route matches a behavior.                                  *)
(***************************************************************************)
C12_Orchestration ==
    ValidConfiguration =>
        \A r \in Runs :
            LET s == run[r] IN
            /\ s.gets <= 1 /\ s.updates <= 1
            /\ s.gets = 1 =>
                   /\ ~s.walk.pending
                   /\ DOMAIN s.functions = Range(serverless.functions)
            /\ s.updates = 1 =>
                   /\ s.gets = 1
                   /\ s.sent[1].DistributionConfig =
                          addNewConfigToDistribution(
                              s.fetched[1].Distribution.DistributionConfig,
                              s.functions, Section.behaviors.routes).value
            /\ s.pc = "finished" => s.updates = 1
            /\ (s.pc # "start" /\ NothingFailed(s) /\ NothingInFlight(s)) =>
                   (s.pc = "finished" /\ s.gets = 1 /\ s.updates = 1)

\* A finished run whose only route matched no behavior: the config it
\* fetched was written back as it was.
C12_Witness ==
    /\ ValidConfiguration
    /\ Section.behaviors.routes = UnmatchedTable
    /\ \E r \in Runs :
           /\ run[r].pc = "finished"
           /\ run[r].updates = 1
           /\ run[r].sent[1].DistributionConfig =
                  run[r].fetched[1].Distribution.DistributionConfig
           /\ store.ETag = 2

(***************************************************************************)
(* C13  With the aws provider and either no cloudfront section or a        *)
(* section whose behaviors are empty, as a list or as a mapping,           *)
(* deployFunctions returns and has called neither listVersions nor         *)
(* getDistribution nor updateDistribution.                                 *)
(***************************************************************************)
NoRoutes ==
    \/ ~HasSection
    \/ /\ SectionComplete
       /\ Section.behaviors.kind \in { "list", "mapping" }
       /\ DOMAIN Section.behaviors.routes = {}

C13_NoConfigurationNoCalls ==
    (ProviderIsAws /\ NoRoutes) =>
        \A r \in Runs :
            run[r].pc \in { "start", "returned" } /\ NoExternalCall(run[r])

(***************************************************************************)
(* C14  When the cloudfront section lacks distributionId or behaviors, or  *)
(* the provider is not aws, getConfiguration throws: the run fails with    *)
(* that error and has made no external call.                               *)
(***************************************************************************)
ConfigurationError ==
    \/ HasSection /\ ~SectionComplete
    \/ ~ProviderIsAws

C14_InvalidConfigurationFailsFast ==
    ConfigurationError =>
        \A r \in Runs :
            /\ run[r].pc \in { "start", "failed" }
            /\ run[r].pc = "failed" =>
                   run[r].error \in
                       { "Missing one or more configuration values.",
                         "This plugin only supports the aws provider." }
            /\ NoExternalCall(run[r])

\* Both runs failed on a complete section under another provider.
C14_Witness ==
    /\ SectionComplete
    /\ Section.behaviors.routes = ValidTable
    /\ ~ProviderIsAws
    /\ \A r \in Runs :
           /\ run[r].pc = "failed"
           /\ run[r].error = "This plugin only supports the aws provider."
           /\ NoExternalCall(run[r])

(***************************************************************************)
(* C15  When a route names a function the service does not declare, the    *)
(* run fails before any external call is made.                             *)
(***************************************************************************)
UndeclaredReference ==
    /\ ProviderIsAws
    /\ SectionComplete
    /\ Section.distributionId # ""
    /\ ~(Referenced(Section.behaviors.routes)
             \subseteq Range(serverless.functions))

C15_UndeclaredFailsBeforeCalls ==
    UndeclaredReference =>
        \A r \in Runs :
            run[r].pc \in { "start", "failed" } /\ NoExternalCall(run[r])

(***************************************************************************)
(* C16  Once a listVersions call of a run has failed, a first call or a    *)
(* follow-up page, that run issues neither getDistribution nor             *)
(* updateDistribution and never finishes.                                  *)
(***************************************************************************)
C16_ResolutionFailureStops ==
    \A r \in Runs :
        run[r].listFailed =>
            /\ run[r].gets = 0
            /\ run[r].updates = 0
            /\ run[r].pc \in { "failed", "resolving" }

\* The first function is resolved, a follow-up page of the second failed;
\* the other run lost its very first call.
C16_Witness ==
    \E r, q \in Runs :
        /\ run[r].listFailed
        /\ run[r].index = 2
        /\ Len(run[r].walk.calls) >= 2
        /\ DOMAIN run[r].functions = { serverless.functions[1] }
        /\ run[q].listFailed
        /\ run[q].pc = "failed"
        /\ run[q].index = 1
        /\ Len(run[q].walk.calls) = 1

(***************************************************************************)
(* C17  When the final page of a function holds no version, the promise of *)
(* getLatestVersion is rejected.                                           *)
(***************************************************************************)
C17_ZeroVersionsRejects ==
    (/\ responses # << >>
     /\ "Versions" \in DOMAIN responses[Len(responses)]
     /\ ~IsPaginated(responses[Len(responses)])
     /\ responses[Len(responses)].Versions = << >>)
        => status = "rejected"

(***************************************************************************)
(* C18  A write the store rejected is fatal: the run has failed with the   *)
(* error of the store, made that one updateDistribution call only, wrote   *)
(* nothing and never finishes.                                             *)
(***************************************************************************)
C18_ConflictIsFatal ==
    \A r \in Runs :
        run[r].rejected # "" =>
            /\ run[r].pc = "failed"
            /\ run[r].error = run[r].rejected
            /\ run[r].updates = 1
            /\ run[r].written = << >>

\* The distribution was changed by somebody else between the fetch and the
\* write of a run, and the store refused the stale token.
C18_Witness ==
    \E r \in Runs :
        /\ run[r].rejected = "PreconditionFailed"
        /\ run[r].pc = "failed"
        /\ modifications = 1
        /\ store.ETag = 2
        /\ run[r].fetched[1].ETag = 1

(***************************************************************************)
(* C19  Every write carries the ETag and the Id of the distribution the    *)
(* same run fetched; so a write succeeds only while the store still holds  *)
(* what the run fetched, and of two runs that fetched the same ETag at     *)
(* most one writes.                                                        *)
(***************************************************************************)
C19_NoLostUpdate ==
    \A r \in Runs :
        LET s == run[r] IN
        /\ s.sent # << >> =>
               /\ s.sent[1].IfMatch = s.fetched[1].ETag
               /\ s.sent[1].Id = s.fetched[1].Distribution.Id
        /\ s.written # << >> =>
               /\ s.written[1].ETag = s.fetched[1].ETag
               /\ s.written[1].DistributionConfig =
                      s.fetched[1].Distribution.DistributionConfig
        /\ \A q \in Runs \ { r } :
               (s.written # << >> /\ run[q].written # << >>) =>
                   s.fetched[1].ETag # run[q].fetched[1].ETag

\* Two runs fetched under the same ETag; one wrote, the other was refused.
C19_Witness ==
    \E r, q \in Runs :
        /\ run[r].fetched # << >> /\ run[q].fetched # << >>
        /\ run[r].fetched[1].ETag = run[q].fetched[1].ETag
        /\ run[r].written # << >>
        /\ run[r].pc = "finished"
        /\ run[q].rejected = "PreconditionFailed"
        /\ store.DistributionConfig = run[r].sent[1].DistributionConfig
        /\ store.DistributionConfig # StoredConfig

(***************************************************************************)
(* C21  An empty cookies list is a no-op: an entry without disable whose   *)
(* cookies list is present and empty leaves the cookie policy of its       *)
(* behavior, mode and whitelist, as it was, just as an entry without       *)
(* cookies does.                                                           *)
(***************************************************************************)
C21_EmptyWhitelistNoOp ==
    Returned =>
        \A s \in Slots(distributionConfig) :
            (/\ Addressed(s)
             /\ ~Carries(EntryOf(s), "disable")
             /\ Carries(EntryOf(s), "cookies") => Len(EntryOf(s).cookies) = 0)
                => CookiePolicy(After(s)) = CookiePolicy(Before(s))

\* A whitelist of two names survived an entry with `cookies: []` that also
\* wrote associations.
C21_Witness ==
    /\ merges = 1
    /\ ~threw
    /\ \E s \in Slots(distributionConfig) :
           /\ StepFour(s)
           /\ EntryOf(s).cookies = << >>
           /\ StepThree(s)
           /\ Associations(After(s)) # Associations(Before(s))
           /\ CookiePolicy(Before(s)).Forward = "whitelist"
           /\ CookiePolicy(After(s)).Forward = "whitelist"
           /\ CookiePolicy(After(s)).WhitelistedNames
                  = [Quantity |-> 2, Items |-> << "session", "oatmeal_cookie" >>]

(***************************************************************************)
(* C22  Merge frame: a merge keeps the number of ordered behaviors, their  *)
(* order and their PathPatterns; in a behavior it changes nothing but the  *)
(* association list and the cookie policy; a behavior that is not          *)
(* addressed and every other field of the config stay as they were.        *)
(***************************************************************************)
SameButAssociationsAndCookies(after, before) ==
    /\ DOMAIN after = DOMAIN before
    /\ \A f \in DOMAIN before \ { "LambdaFunctionAssociations",
                                  "ForwardedValues" } :
           after[f] = before[f]
    /\ DOMAIN after.ForwardedValues = DOMAIN before.ForwardedValues
    /\ \A f \in DOMAIN before.ForwardedValues \ { "Cookies" } :
           after.ForwardedValues[f] = before.ForwardedValues[f]

C22_MergeFrame ==
    merges >= 1 =>
        /\ Len(distributionConfig.CacheBehaviors.Items)
               = Len(previousConfig.CacheBehaviors.Items)
        /\ \A s \in Slots(previousConfig) :
               /\ KeyAt(distributionConfig, s) = KeyAt(previousConfig, s)
               /\ SameButAssociationsAndCookies(After(s), Before(s))
               /\ ~Addressed(s) => After(s) = Before(s)
        /\ DOMAIN distributionConfig = DOMAIN previousConfig
        /\ \A f \in DOMAIN previousConfig \ { "DefaultCacheBehavior",
                                              "CacheBehaviors" } :
               distributionConfig[f] = previousConfig[f]
        /\ distributionConfig.CacheBehaviors.Quantity
               = previousConfig.CacheBehaviors.Quantity

\* Two ordered behaviors, both addressed: the first one disabled, the second
\* one given associations and cookies; patterns, origins and query string
\* settings are where they were.
C22_Witness ==
    /\ merges = 1
    /\ ~threw
    /\ Len(distributionConfig.CacheBehaviors.Items) = 2
    /\ Addressed(1) /\ Addressed(2)
    /\ Carries(EntryOf(1), "disable")
    /\ CookiePolicy(Before(1)).Forward = "whitelist"
    /\ CookiePolicy(After(1)).Forward = "none"
    /\ StepThree(2) /\ StepFour(2)
    /\ Associations(After(2)) # Associations(Before(2))
    /\ CookiePolicy(After(2)) # CookiePolicy(Before(2))
    /\ After(1).PathPattern = "*special-route/*"
    /\ After(2).PathPattern = "/pages_contents/*"
    /\ After(1).TargetOriginId = Before(1).TargetOriginId
    /\ After(2).ForwardedValues.QueryString

(***************************************************************************)
(* C23  Disable is the only removal path: under an entry without disable,  *)
(* and where no entry applies, a behavior has no associations after the    *)
(* merge only if it had none before, has cookie mode 'none' only if it had *)
(* it before, and a whitelist that held names still holds names.           *)
(***************************************************************************)
HoldsNames(policy) ==
    /\ policy.Forward = "whitelist"
    /\ "WhitelistedNames" \in DOMAIN policy
    /\ Len(policy.WhitelistedNames.Items) > 0

C23_DisableOnlyRemoves ==
    Returned =>
        \A s \in Slots(distributionConfig) :
            (Addressed(s) => ~Carries(EntryOf(s), "disable")) =>
                /\ Len(Associations(After(s)).Items) = 0
                       => Len(Associations(Before(s)).Items) = 0
                /\ Associations(After(s)).Quantity = 0
                       => Associations(Before(s)).Quantity = 0
                /\ CookiePolicy(After(s)).Forward = "none"
                       => CookiePolicy(Before(s)).Forward = "none"
                /\ HoldsNames(CookiePolicy(Before(s)))
                       => HoldsNames(CookiePolicy(After(s)))

\* An entry whose lambdaAssociations name none of the four events and whose
\* cookies list is empty met a behavior with four associations and two
\* whitelisted names: all six are still there.
C23_Witness ==
    /\ merges = 1
    /\ ~threw
    /\ \E s \in Slots(distributionConfig) :
           /\ StepThree(s) /\ StepFour(s)
           /\ Len(EntryOf(s).lambdaAssociations) = 1
           /\ SpecifiedEvents(EntryOf(s).lambdaAssociations) = {}
           /\ EntryOf(s).cookies = << >>
           /\ Associations(Before(s)).Quantity = 4
           /\ Associations(After(s)).Quantity = 4
           /\ HoldsNames(CookiePolicy(After(s)))
           /\ CookiePolicy(After(s)).WhitelistedNames.Quantity = 2

(***************************************************************************)
(* C24  Quantity invariant: in every config the merges start from and      *)
(* arrive at, the association list of every behavior and every cookie      *)
(* whitelist has Quantity equal to the number of its Items.                *)
(***************************************************************************)
QuantityMatches(list) == list.Quantity = Len(list.Items)

WellCounted(config) ==
    \A s \in Slots(config) :
        /\ QuantityMatches(Associations(BehaviorAt(config, s)))
        /\ "WhitelistedNames" \in DOMAIN CookiePolicy(BehaviorAt(config, s))
               => QuantityMatches(
                      CookiePolicy(BehaviorAt(config, s)).WhitelistedNames)

C24_QuantityInvariant ==
    WellCounted(fetchedConfig) => WellCounted(distributionConfig)

\* After two merges: one behavior disabled, another given two associations
\* and two cookies, a third one left alone with what it was fetched with.
C24_Witness ==
    /\ merges = 2
    /\ ~threw
    /\ Len(distributionConfig.CacheBehaviors.Items) = 2
    /\ \E a, b, c \in Slots(distributionConfig) :
           /\ Addressed(a) /\ Carries(EntryOf(a), "disable")
           /\ Associations(BehaviorAt(fetchedConfig, a)).Quantity = 2
           /\ Associations(After(a)) = [Quantity |-> 0, Items |-> << >>]
           /\ StepThree(b) /\ StepFour(b)
           /\ Associations(After(b)).Quantity = 2
           /\ CookiePolicy(After(b)).WhitelistedNames.Quantity = 2
           /\ ~Addressed(c)
           /\ Associations(After(c)).Quantity = 2

(***************************************************************************)
(* C25  Association well-formedness: a list written for an entry holds at  *)
(* most one association per event; every EventType is one of the four      *)
(* events; every association stands for a key of the entry that is one of  *)
(* the four events and carries the FunctionArn resolved for the function   *)
(* the entry names under that key; other keys give no association.         *)
(***************************************************************************)
C25_AssociationsWellFormed ==
    Returned =>
        \A s \in Slots(distributionConfig) :
            (StepThree(s) /\ SpecifiedEvents(EntryOf(s).lambdaAssociations) # {})
                => LET items == Associations(After(s)).Items
                       given == EntryOf(s).lambdaAssociations
                   IN /\ \A i, j \in 1..Len(items) :
                             items[i].EventType = items[j].EventType => i = j
                      /\ \A i \in 1..Len(items) :
                             /\ items[i].EventType \in
                                    { "viewer-request", "viewer-response",
                                      "origin-request", "origin-response" }
                             /\ \E e \in 1..Len(LifecycleOrder),
                                   g \in 1..Len(given) :
                                    /\ LifecycleOrder[e].type
                                           = items[i].EventType
                                    /\ given[g].key = LifecycleOrder[e].key
                                    /\ items[i].LambdaFunctionARN =
                                           lambdaFunctions[given[g].fn].FunctionArn
                      /\ Len(items)
                             = Cardinality({ g \in 1..Len(given) :
                                   \E e \in 1..Len(LifecycleOrder) :
                                       LifecycleOrder[e].key = given[g].key })

\* An entry with the key 'viewer-request' (not an event key) and the key
\* originResponse: one association, for origin-response, replaced four.
C25_Witness ==
    /\ merges = 1
    /\ ~threw
    /\ \E s \in Slots(distributionConfig) :
           /\ StepThree(s)
           /\ Len(EntryOf(s).lambdaAssociations) = 2
           /\ Specifies(EntryOf(s).lambdaAssociations, "viewer-request")
           /\ Specifies(EntryOf(s).lambdaAssociations, "originResponse")
           /\ Associations(Before(s)).Quantity = 4
           /\ Associations(After(s)).Quantity = 1
           /\ Associations(After(s)).Items[1].EventType = "origin-response"
           /\ Associations(After(s)).Items[1].LambdaFunctionARN
                  = "arn:my-other-awesome-function:7"

(***************************************************************************)
(* C26  The run always settles: a run that has been started and has no     *)
(* external call open has completed, returned or been rejected.  Only the  *)
(* answer to an open call moves a run on, so a run that waits without one  *)
(* stays pending for ever.                                                 *)
(***************************************************************************)
C26_RunSettles ==
    \A r \in Runs :
        (run[r].pc # "start" /\ NothingInFlight(run[r]))
            => run[r].pc \in { "finished", "returned", "failed" }

====
